---- MODULE Spec2Model ----
(***************************************************************************)
(* Risk classification and reporting engine of radiation_map_light.py.     *)
(*                                                                         *)
(* Dose rates are fixed-point integers in units of 10^-5 uSv/h, so that    *)
(* every cut point of the code (0.15, 0.3, 0.5, 1.0) and the built-in      *)
(* reading 0.4385 are exact.  Quotients (mean, risk index) are kept as     *)
(* exact fractions [num, den].  The arithmetic of the model is exact; the  *)
(* one place where the binary representation of a Python float decides     *)
(* the outcome, a decimal tie in a ".0f"/".1f" format, is a choice between *)
(* both roundings.                                                         *)
(***************************************************************************)
EXTENDS Integers, Sequences, FiniteSets, TLC

VARIABLES
    data_points,     \* RadiationData.data_points: the dose-rate column, in order
    op,              \* the operation that is running
    pc,              \* its position
    df,              \* the DataFrame column 'Radiation_uSv_h' returned by get_dataframe
    stats,           \* the stats dict returned by get_dataframe
    i,               \* number of rows the running loop has processed (idx + 1)
    risk,            \* the loop variable `risk` (last assess_risk_corrected result)
    risk_counts,     \* risk_counts dict
    hotspots,        \* hotspots list
    risk_index,      \* risk_index (a fraction)
    overall_risk,    \* overall_risk
    recommendations, \* recommendations
    h,               \* number of hotspots rendered so far
    safety,          \* last calculate_exposure_safety result
    report,          \* the report text, as its sequence of lines
    popups           \* the marker popups built by add_measurement_points

vars == <<data_points, op, pc, df, stats, i, risk, risk_counts, hotspots,
          risk_index, overall_risk, recommendations, h, safety, report, popups>>

----------------------------------------------------------------------------
(* Bounds and the input domain *)

\* 10^-5 uSv/h per unit
Unit == 10^5

\* longest replacement dataset explored besides the built-in one
MaxLen == 3

\* dose rates a replacement dataset draws from: a negative reading, zero,
\* a small positive reading (0.0051), both sides of the first cut point,
\* every cut point, the built-in reading and a value that saturates the
\* index (2.5)
DoseRates == {-10000, 0, 510, 14999, 15000, 30000, 43850, 50000, 100000, 250000}

\* the dose-rate column of the built-in data_points
SampleData == <<43850, 0, 0, 0>>

RECURSIVE SeqsUpTo(_)
SeqsUpTo(n) ==
    IF n = 0 THEN {<<>>}
    ELSE LET S == SeqsUpTo(n - 1)
         IN S \cup {Append(s, d) : s \in {t \in S : Len(t) = n - 1}, d \in DoseRates}

Datasets == SeqsUpTo(MaxLen) \cup {SampleData}

RiskLevels == {"SAFE", "LOW", "MODERATE", "HIGH", "SEVERE"}

Ops == {"report", "panel", "points"}

----------------------------------------------------------------------------
(* Pure functions *)

RECURSIVE SeqSum(_)
SeqSum(s) == IF s = <<>> THEN 0 ELSE Head(s) + SeqSum(Tail(s))

SeqMax(s) == CHOOSE x \in {s[k] : k \in 1..Len(s)} : \A k \in 1..Len(s) : s[k] <= x

SeqMin(s) == CHOOSE x \in {s[k] : k \in 1..Len(s)} : \A k \in 1..Len(s) : x <= s[k]

\* pandas: mean/max/min of an empty column are NaN
get_dataframe_stats(points) ==
    IF Len(points) = 0
    THEN [nan |-> TRUE, mean |-> [num |-> 0, den |-> 1], max |-> 0, min |-> 0]
    ELSE [nan  |-> FALSE,
          mean |-> [num |-> SeqSum(points), den |-> Len(points)],
          max  |-> SeqMax(points),
          min  |-> SeqMin(points)]

\* the dict literal each branch of assess_risk_corrected returns
RiskRecord(level) ==
    CASE level = "SAFE" ->
            [level |-> "SAFE", color |-> "green",
             action |-> "No restrictions needed",
             description |-> "Within natural background range"]
      [] level = "LOW" ->
            [level |-> "LOW", color |-> "yellow",
             action |-> "Monitor regularly",
             description |-> "Slightly above natural background"]
      [] level = "MODERATE" ->
            [level |-> "MODERATE", color |-> "orange",
             action |-> "Investigate possible sources",
             description |-> "Above normal levels"]
      [] level = "HIGH" ->
            [level |-> "HIGH", color |-> "red",
             action |-> "Restrict prolonged access",
             description |-> "Requires attention"]
      [] level = "SEVERE" ->
            [level |-> "SEVERE", color |-> "purple",
             action |-> "Immediate action required",
             description |-> "Emergency situation"]

\* mutant: the cut points compared with <= instead of <
assess_risk_inclusive(radiation_level) ==
    IF radiation_level <= 15000 THEN RiskRecord("SAFE")
    ELSE IF radiation_level <= 30000 THEN RiskRecord("LOW")
    ELSE IF radiation_level <= 50000 THEN RiskRecord("MODERATE")
    ELSE IF radiation_level <= 100000 THEN RiskRecord("HIGH")
    ELSE RiskRecord("SEVERE")

\* mutant: the MODERATE and HIGH branches return each other's dict
assess_risk_swapped(radiation_level) ==
    IF radiation_level < 15000 THEN RiskRecord("SAFE")
    ELSE IF radiation_level < 30000 THEN RiskRecord("LOW")
    ELSE IF radiation_level < 50000 THEN RiskRecord("HIGH")
    ELSE IF radiation_level < 100000 THEN RiskRecord("MODERATE")
    ELSE RiskRecord("SEVERE")

assess_risk_corrected(radiation_level) ==
    IF radiation_level < 15000 THEN RiskRecord("SAFE")
    ELSE IF radiation_level < 30000 THEN RiskRecord("LOW")
    ELSE IF radiation_level < 50000 THEN RiskRecord("MODERATE")
    ELSE IF radiation_level < 100000 THEN RiskRecord("HIGH")
    ELSE RiskRecord("SEVERE")

PUBLIC_LIMIT == 1000

WORKER_LIMIT == 20000

\* f"{num/den:.0f}" for num >= 0, den > 0: nearest integer; on a decimal tie
\* the float's binary expansion decides, so `tie` (0 down, 1 up) is chosen
FormatRounded(num, den, tie) ==
    LET q == num \div den
        r == num % den
    IN  IF 2 * r < den THEN q
        ELSE IF 2 * r > den THEN q + 1
        ELSE q + tie

TieChoices == [days_public : {0, 1}, days_worker : {0, 1}, annual : {0, 1},
               pct_public : {0, 1}, pct_worker : {0, 1}]

\* mutant: the worker percentage divided by PUBLIC_LIMIT
exposure_worker_by_public_limit(radiation_level, tie) ==
    IF radiation_level <= 0 THEN [status |-> "No radiation detected"]
    ELSE
        [public_safety |->
            FormatRounded(PUBLIC_LIMIT * Unit, 8 * radiation_level, tie.days_public),
         worker_safety |->
            FormatRounded(WORKER_LIMIT * Unit, 8 * radiation_level, tie.days_worker),
         annual_dose_estimate |->
            FormatRounded(radiation_level * 8 * 250, Unit, tie.annual),
         percent_of_public_limit |->
            FormatRounded(radiation_level * 8 * 250,
                          PUBLIC_LIMIT * (Unit \div 1000), tie.pct_public),
         percent_of_worker_limit |->
            FormatRounded(radiation_level * 8 * 250,
                          PUBLIC_LIMIT * (Unit \div 1000), tie.pct_worker)]

\* The dict of formatted strings, each kept as the number it prints:
\* days and uSv/year as integers, percentages in tenths of a percent
\* ((annual/LIMIT)*100 in tenths is annual*1000/(LIMIT*Unit), written with
\* the factor 1000 cancelled to stay inside 32-bit integers).
calculate_exposure_safety(radiation_level, tie) ==
    IF radiation_level <= 0 THEN [status |-> "No radiation detected"]
    ELSE
        [public_safety |->
            FormatRounded(PUBLIC_LIMIT * Unit, 8 * radiation_level, tie.days_public),
         worker_safety |->
            FormatRounded(WORKER_LIMIT * Unit, 8 * radiation_level, tie.days_worker),
         annual_dose_estimate |->
            FormatRounded(radiation_level * 8 * 250, Unit, tie.annual),
         percent_of_public_limit |->
            FormatRounded(radiation_level * 8 * 250,
                          PUBLIC_LIMIT * (Unit \div 1000), tie.pct_public),
         percent_of_worker_limit |->
            FormatRounded(radiation_level * 8 * 250,
                          WORKER_LIMIT * (Unit \div 1000), tie.pct_worker)]

\* mutant: the count is set to 1 instead of incremented
CountRisk_assign(counts, level) == [counts EXCEPT ![level] = 1]

CountRisk(counts, level) == [counts EXCEPT ![level] = @ + 1]

\* mutant: MODERATE left out of the hotspot levels
IsHotspot_high_only(level) == level \in {"HIGH", "SEVERE"}

\* mutant: every level but LOW counted as a hotspot level
IsHotspot_not_low(level) == level # "LOW"

IsHotspot(level) == level \in {"MODERATE", "HIGH", "SEVERE"}

\* mutant: the weights 70 and 30 exchanged
compute_risk_index_swapped(st) ==
    IF st.nan THEN [num |-> 100, den |-> 1]
    ELSE LET den == st.mean.den * Unit
             num == st.max * 30 * st.mean.den + st.mean.num * 70
         IN  IF num < 100 * den THEN [num |-> num, den |-> den]
             ELSE [num |-> 100, den |-> 1]

\* min(100, max*70 + mean*30); Python's min(100, x) is x only when x < 100,
\* so a NaN sum gives 100
compute_risk_index(st) ==
    IF st.nan THEN [num |-> 100, den |-> 1]
    ELSE LET den == st.mean.den * Unit
             num == st.max * 70 * st.mean.den + st.mean.num * 30
         IN  IF num < 100 * den THEN [num |-> num, den |-> den]
             ELSE [num |-> 100, den |-> 1]

\* mutant: the index cut points compared with <= instead of <
determine_overall_risk_inclusive(idx) ==
    IF idx.num <= 30 * idx.den THEN "SAFE"
    ELSE IF idx.num <= 50 * idx.den THEN "LOW"
    ELSE IF idx.num <= 70 * idx.den THEN "MODERATE"
    ELSE IF idx.num <= 90 * idx.den THEN "HIGH"
    ELSE "SEVERE"

determine_overall_risk(idx) ==
    IF idx.num < 30 * idx.den THEN "SAFE"
    ELSE IF idx.num < 50 * idx.den THEN "LOW"
    ELSE IF idx.num < 70 * idx.den THEN "MODERATE"
    ELSE IF idx.num < 90 * idx.den THEN "HIGH"
    ELSE "SEVERE"

recommendations_for(level) ==
    CASE level = "SAFE" ->
            <<"Continue routine monitoring", "Maintain baseline records",
              "No restrictions needed">>
      [] level = "LOW" ->
            <<"Monitor monthly", "Investigate minor elevations",
              "Inform local authorities">>
      [] level = "MODERATE" ->
            <<"Increase monitoring to weekly",
              "Restrict prolonged access to elevated areas",
              "Investigate potential sources">>
      [] level = "HIGH" ->
            <<"Restrict area access", "Notify radiation safety officer",
              "Begin source investigation", "Implement protective measures">>
      [] OTHER ->
            <<"IMMEDIATE AREA RESTRICTION", "Contact nuclear regulatory body",
              "Deploy emergency response", "Evacuate non-essential personnel">>

\* the sentence the conclusion picks
conclusion_within_limits(level) == level \in {"SAFE", "LOW"}

----------------------------------------------------------------------------
(* State machine *)

NoRisk == [level |-> "unset"]
NoSafety == [unset |-> TRUE]
NoIndex == [num |-> 0, den |-> 0]
NoStats == [nan |-> TRUE, mean |-> [num |-> 0, den |-> 0], max |-> 0, min |-> 0]
ZeroCounts == [l \in RiskLevels |-> 0]

Init ==
    /\ data_points \in Datasets
    /\ op = "none"
    /\ pc = "idle"
    /\ df = <<>>
    /\ stats = NoStats
    /\ i = 0
    /\ risk = NoRisk
    /\ risk_counts = ZeroCounts
    /\ hotspots = <<>>
    /\ risk_index = NoIndex
    /\ overall_risk = "unset"
    /\ recommendations = <<>>
    /\ h = 0
    /\ safety = NoSafety
    /\ report = <<>>
    /\ popups = <<>>

\* entry of generate_risk_report / add_statistics_panel / add_measurement_points:
\* get_dataframe(), then the initialisation before the loop
Start ==
    /\ pc = "idle"
    /\ \E o \in Ops : op' = o
    /\ df' = data_points
    /\ stats' = get_dataframe_stats(data_points)
    /\ pc' = "loop"
    /\ UNCHANGED <<data_points, i, risk, risk_counts, hotspots, risk_index,
                   overall_risk, recommendations, h, safety, report, popups>>

\* one iteration of the loop of generate_risk_report
TallyRow ==
    /\ op = "report" /\ pc = "loop" /\ i < Len(df)
    /\ LET row == df[i + 1]
           r   == assess_risk_corrected(row)
       IN  /\ risk' = r
           /\ risk_counts' = CountRisk(risk_counts, r.level)
           /\ hotspots' = IF IsHotspot(r.level)
                          THEN Append(hotspots,
                                      [point |-> i + 1, radiation |-> row,
                                       risk |-> r.level])
                          ELSE hotspots
    /\ i' = i + 1
    /\ UNCHANGED <<data_points, op, pc, df, stats, risk_index, overall_risk,
                   recommendations, h, safety, report, popups>>

\* risk_index = min(100, max*70 + mean*30), after the loop
ComputeIndex ==
    /\ op = "report" /\ pc = "loop" /\ i = Len(df)
    /\ risk_index' = compute_risk_index(stats)
    /\ pc' = "level"
    /\ UNCHANGED <<data_points, op, df, stats, i, risk, risk_counts, hotspots,
                   overall_risk, recommendations, h, safety, report, popups>>

\* the if/elif chain on risk_index
DetermineOverall ==
    /\ op = "report" /\ pc = "level"
    /\ overall_risk' = determine_overall_risk(risk_index)
    /\ recommendations' = recommendations_for(determine_overall_risk(risk_index))
    /\ pc' = "render"
    /\ UNCHANGED <<data_points, op, df, stats, i, risk, risk_counts, hotspots,
                   risk_index, h, safety, report, popups>>

\* the first f-string of the report: summary, risk assessment, safety analysis
RenderHead ==
    /\ op = "report" /\ pc = "render"
    /\ report' = <<[line |-> "head", points |-> Len(df),
                    overall |-> overall_risk, dist |-> risk_counts]>>
    /\ pc' = "hotspots"
    /\ UNCHANGED <<data_points, op, df, stats, i, risk, risk_counts, hotspots,
                   risk_index, overall_risk, recommendations, h, safety, popups>>

\* one iteration of `for hotspot in hotspots`; a missing key raises KeyError
RenderHotspot ==
    /\ op = "report" /\ pc = "hotspots" /\ h < Len(hotspots)
    /\ \E tie \in TieChoices :
        LET hotspot  == hotspots[h + 1]
            exposure == calculate_exposure_safety(hotspot.radiation, tie)
        IN  /\ safety' = exposure
            /\ IF {"public_safety", "worker_safety"} \subseteq DOMAIN exposure
               THEN /\ report' = Append(report,
                                   [line |-> "hotspot", point |-> hotspot.point,
                                    radiation |-> hotspot.radiation,
                                    risk |-> hotspot.risk,
                                    public_safety |-> exposure.public_safety,
                                    worker_safety |-> exposure.worker_safety])
                    /\ h' = h + 1
                    /\ pc' = pc
               ELSE /\ pc' = "KeyError"
                    /\ UNCHANGED <<report, h>>
    /\ UNCHANGED <<data_points, op, df, stats, i, risk, risk_counts, hotspots,
                   risk_index, overall_risk, recommendations, popups>>

\* the else branch of `if hotspots`
RenderNoHotspots ==
    /\ op = "report" /\ pc = "hotspots" /\ Len(hotspots) = 0
    /\ report' = Append(report, [line |-> "no_hotspots"])
    /\ pc' = "tail"
    /\ UNCHANGED <<data_points, op, df, stats, i, risk, risk_counts, hotspots,
                   risk_index, overall_risk, recommendations, h, safety, popups>>

\* end of the hotspot loop
HotspotsDone ==
    /\ op = "report" /\ pc = "hotspots"
    /\ Len(hotspots) > 0 /\ h = Len(hotspots)
    /\ pc' = "tail"
    /\ UNCHANGED <<data_points, op, df, stats, i, risk, risk_counts, hotspots,
                   risk_index, overall_risk, recommendations, h, safety, report,
                   popups>>

\* recommended actions, conclusion, return report
RenderTail ==
    /\ op = "report" /\ pc = "tail"
    /\ report' = report
                 \o [k \in 1..Len(recommendations) |->
                        [line |-> "recommendation", n |-> k,
                         text |-> recommendations[k]]]
                 \o <<[line |-> "conclusion", points |-> Len(df),
                       level |-> overall_risk,
                       within_limits |-> conclusion_within_limits(overall_risk)]>>
    /\ pc' = "done"
    /\ UNCHANGED <<data_points, op, df, stats, i, risk, risk_counts, hotspots,
                   risk_index, overall_risk, recommendations, h, safety, popups>>

\* one iteration of the loop of add_statistics_panel
PanelRow ==
    /\ op = "panel" /\ pc = "loop" /\ i < Len(df)
    /\ LET r == assess_risk_corrected(df[i + 1])
       IN  /\ risk' = r
           /\ risk_counts' = CountRisk(risk_counts, r.level)
    /\ i' = i + 1
    /\ UNCHANGED <<data_points, op, pc, df, stats, hotspots, risk_index,
                   overall_risk, recommendations, h, safety, report, popups>>

\* one iteration of the loop of add_measurement_points
PointRow ==
    /\ op = "points" /\ pc = "loop" /\ i < Len(df)
    /\ \E tie \in TieChoices :
        LET row == df[i + 1]
            r   == assess_risk_corrected(row)
            s   == calculate_exposure_safety(row, tie)
        IN  /\ risk' = r
            /\ safety' = s
            /\ popups' = Append(popups,
                            [point |-> i + 1, level |-> r.level,
                             color |-> r.color, action |-> r.action,
                             safety_info |->
                                IF "status" \in DOMAIN s
                                THEN <<s.status>>
                                ELSE <<s.public_safety, s.worker_safety>>])
    /\ i' = i + 1
    /\ UNCHANGED <<data_points, op, pc, df, stats, risk_counts, hotspots,
                   risk_index, overall_risk, recommendations, h, report>>

\* end of the loop of add_statistics_panel / add_measurement_points
LoopDone ==
    /\ op \in {"panel", "points"} /\ pc = "loop" /\ i = Len(df)
    /\ pc' = "done"
    /\ UNCHANGED <<data_points, op, df, stats, i, risk, risk_counts, hotspots,
                   risk_index, overall_risk, recommendations, h, safety, report,
                   popups>>

Next ==
    \/ Start
    \/ TallyRow
    \/ ComputeIndex
    \/ DetermineOverall
    \/ RenderHead
    \/ RenderHotspot
    \/ RenderNoHotspots
    \/ HotspotsDone
    \/ RenderTail
    \/ PanelRow
    \/ PointRow
    \/ LoopDone

Spec == Init /\ [][Next]_vars

----------------------------------------------------------------------------
(* Properties *)

\* the level the classification table assigns to a dose rate d >= 0
TableLevel(d) ==
    CASE d < 15000                  -> "SAFE"
      [] 15000 <= d /\ d < 30000    -> "LOW"
      [] 30000 <= d /\ d < 50000    -> "MODERATE"
      [] 50000 <= d /\ d < 100000   -> "HIGH"
      [] d >= 100000                -> "SEVERE"

Rank(level) ==
    CASE level = "SAFE" -> 0
      [] level = "LOW" -> 1
      [] level = "MODERATE" -> 2
      [] level = "HIGH" -> 3
      [] level = "SEVERE" -> 4

CountsTotal(counts) ==
    counts["SAFE"] + counts["LOW"] + counts["MODERATE"] + counts["HIGH"]
    + counts["SEVERE"]

Abs(x) == IF x < 0 THEN 0 - x ELSE x

\* C1: every dose rate d >= 0 a loop has just classified got exactly the level
\* of the table: SAFE below 0.15, LOW in [0.15, 0.3), MODERATE in [0.3, 0.5),
\* HIGH in [0.5, 1.0), SEVERE from 1.0 on (a cut point gets the higher level).
C1_ClassifyByTable ==
    (i >= 1 /\ df[i] >= 0) =>
        /\ risk.level \in RiskLevels
        /\ risk.level = TableLevel(df[i])
        /\ (df[i] = 15000 => risk.level = "LOW")
        /\ (df[i] = 14999 => risk.level = "SAFE")
        /\ (df[i] = 30000 => risk.level = "MODERATE")
        /\ (df[i] = 50000 => risk.level = "HIGH")
        /\ (df[i] = 100000 => risk.level = "SEVERE")

C1_Witness ==
    /\ i >= 1 /\ df[i] = 100000 /\ risk.level = "SEVERE"
    /\ \E k \in 1..Len(popups) : df[k] = 15000 /\ popups[k].level = "LOW"

\* C2: a negative dose rate is rejected: the row just processed, when negative,
\* has received no risk level and has not been added to any count.
C2_NegativeDoseRejected ==
    (i >= 1 /\ df[i] < 0) =>
        /\ risk.level \notin RiskLevels
        /\ (op \in {"report", "panel"} => CountsTotal(risk_counts) < i)

\* C3: report generation on a dataset with zero samples produces no risk
\* index, no overall risk level and no report text.
C3_EmptyDatasetFails ==
    (op = "report" /\ Len(data_points) = 0) =>
        /\ risk_index = NoIndex
        /\ overall_risk = "unset"
        /\ report = <<>>

\* C4: for a non-empty dataset the risk distribution has exactly the five keys,
\* each a count >= 0, and the counts sum to the number of samples processed so
\* far, hence to the number of samples once the loop has ended.
C4_DistributionComplete ==
    (op \in {"report", "panel"} /\ Len(df) >= 1) =>
        /\ DOMAIN risk_counts = RiskLevels
        /\ \A l \in RiskLevels : risk_counts[l] \in Nat
        /\ CountsTotal(risk_counts) = i
        /\ (pc # "loop" => CountsTotal(risk_counts) = Len(df))

C4_Witness ==
    /\ op = "report" /\ pc = "done" /\ Len(df) = 3
    /\ risk_counts["SAFE"] = 2 /\ risk_counts["SEVERE"] = 1
    /\ report[1].dist = risk_counts

\* the samples among the first n with dose rate >= 0.3, in order, each with its
\* 1-based position, its dose rate and its table level
RECURSIVE SamplesFrom03(_, _)
SamplesFrom03(rows, n) ==
    IF n = 0 THEN <<>>
    ELSE IF rows[n] >= 30000
         THEN Append(SamplesFrom03(rows, n - 1),
                     [point |-> n, radiation |-> rows[n],
                      risk |-> TableLevel(rows[n])])
         ELSE SamplesFrom03(rows, n - 1)

\* C5: the hotspot list holds exactly the samples processed so far whose level
\* is MODERATE, HIGH or SEVERE (dose rate >= 0.3), once each, in dataset order,
\* with 1-based position, dose rate and level; its length is the sum of the
\* MODERATE, HIGH and SEVERE counts.
C5_HotspotsExact ==
    (op = "report") =>
        /\ hotspots = SamplesFrom03(df, i)
        /\ Len(hotspots) = risk_counts["MODERATE"] + risk_counts["HIGH"]
                           + risk_counts["SEVERE"]

C5_Witness ==
    /\ op = "report" /\ pc = "done" /\ Len(df) = 3
    /\ Len(hotspots) = 2
    /\ hotspots[1].point = 1 /\ hotspots[1].risk = "MODERATE"
    /\ hotspots[2].point = 3 /\ hotspots[2].risk = "SEVERE"

\* C6: the overall risk index, once computed, lies in the closed range 0..100.
C6_IndexInRange ==
    (risk_index # NoIndex) =>
        /\ 0 <= risk_index.num
        /\ risk_index.num <= 100 * risk_index.den

\* C7: the overall level is read off the index alone (SAFE below 30, LOW below
\* 50, MODERATE below 70, HIGH below 90, SEVERE from 90 on) and the
\* recommendations are the fixed list of 3 to 4 strings of that level.
C7_OverallFromIndex ==
    (overall_risk # "unset") =>
        LET n == risk_index.num
            d == risk_index.den
        IN  /\ (n < 30 * d) <=> (overall_risk = "SAFE")
            /\ (30 * d <= n /\ n < 50 * d) <=> (overall_risk = "LOW")
            /\ (50 * d <= n /\ n < 70 * d) <=> (overall_risk = "MODERATE")
            /\ (70 * d <= n /\ n < 90 * d) <=> (overall_risk = "HIGH")
            /\ (90 * d <= n) <=> (overall_risk = "SEVERE")
            /\ Len(recommendations) \in {3, 4}
            /\ recommendations = recommendations_for(overall_risk)
            /\ (overall_risk = "SEVERE"
                    => recommendations[1] = "IMMEDIATE AREA RESTRICTION")

\* the index sits exactly on the cut point 30 and a MODERATE point is present
C7_Witness ==
    /\ overall_risk = "LOW" /\ risk_index.num = 30 * risk_index.den
    /\ risk_counts["MODERATE"] >= 1
    /\ Len(recommendations) = 3

ExposureInput == IF op = "points" THEN df[i] ELSE hotspots[h].radiation

C9_Monotone ==
    \A j, k \in 1..Len(popups) :
        (0 <= df[j] /\ df[j] < df[k]) =>
            Rank(popups[j].level) <= Rank(popups[k].level)

C9_Witness ==
    /\ Len(popups) = 3
    /\ df[1] = 50000 /\ df[2] = 30000 /\ df[3] = 14999
    /\ popups[1].level = "HIGH" /\ popups[2].level = "MODERATE"
    /\ popups[3].level = "SAFE"

\* C10: on the built-in dataset point 1 is MODERATE and points 2 to 4 are SAFE,
\* the hotspot list is exactly point 1, the index is
\* 0.4385*70 + 0.109625*30 = 33.98375 and the overall level is LOW.
C10_SampleScenario ==
    (data_points = SampleData /\ op = "report") =>
        /\ (i >= 1 => risk.level = IF i = 1 THEN "MODERATE" ELSE "SAFE")
        /\ (pc # "loop" =>
                /\ hotspots = <<[point |-> 1, radiation |-> 43850,
                                 risk |-> "MODERATE"]>>
                /\ risk_counts = [ZeroCounts EXCEPT !["MODERATE"] = 1,
                                                    !["SAFE"] = 3])
        /\ (risk_index # NoIndex =>
                /\ risk_index.num = 43850 * 70 * 4 + 43850 * 30
                /\ risk_index.den = 4 * Unit
                /\ 3398 * risk_index.den <= 100 * risk_index.num
                /\ 100 * risk_index.num < 3399 * risk_index.den)
        /\ (overall_risk # "unset" => overall_risk = "LOW")

C10_Witness ==
    /\ data_points = SampleData /\ op = "report" /\ pc = "done"
    /\ overall_risk = "LOW" /\ Len(hotspots) = 1 /\ i = 4

C12_WithinLimitsNoHighPoint ==
    \A k \in 1..Len(report) :
        (/\ \A j \in 1..Len(df) : df[j] >= 0
         /\ report[k].line = "conclusion" /\ report[k].within_limits) =>
            /\ risk_counts["HIGH"] = 0
            /\ risk_counts["SEVERE"] = 0
            /\ \A j \in 1..Len(hotspots) : hotspots[j].risk \notin {"HIGH", "SEVERE"}

====
